---- MODULE Spec2Model ----
(***************************************************************************)
(* BrowserBridge (gui_agents/s3/browser/bridge.py): a WebSocket server     *)
(* running on one event-loop thread, and send_command executed by caller   *)
(* threads.  The two sides share client, connected, _command_id and        *)
(* _pending_commands without any lock, so the reads and writes of these    *)
(* fields by one thread are separate steps wherever a step of another      *)
(* thread in between can change what happens.                              *)
(*                                                                         *)
(* Event loop: the callbacks of the loop never interleave with each other  *)
(* (there is no await inside _handle_message or inside the finally block   *)
(* of _handle_client), but caller threads run between their statements.    *)
(*                                                                         *)
(* HybridACI (gui_agents/s3/agents/hybrid_aci.py): the agent actions that  *)
(* route to the bridge or to the visual executor of the parent class.      *)
(* Spec runs the bridge with the agent at rest; AciSpec runs the agent     *)
(* actions against a bridge of which only connected and what send_command  *)
(* hands back are looked at.                                               *)
(***************************************************************************)
EXTENDS Naturals, Integers, Sequences, FiniteSets, TLC

\* ---------------------------------------------------------------- bounds
MaxId == 2           \* largest N of a correlation id "cmd-N"
NumPeers == 2        \* WebSocket connections accepted over the run

\* The caller threads.  Each runs any number of calls, one after the other;
\* two threads show every race of a call with another call and with the loop.
Callers == {1, 2}
Peers == 1..NumPeers
Ids == 1..MaxId

\* Python's None, for self.client.
None == 0

\* ------------------------------------------------------------ the frames
\* What json.loads and the two data.get calls of _handle_message can see.
\*   handshake      {"type": "handshake", "id": i}      (i = 0: no id)
\*   response       {"id": "cmd-i", ...}                (i = 0: no or empty id)
\*   invalid_json   text json.loads rejects
\*   not_object     valid JSON that is no object: data.get raises
\*   unhashable_id  {"id": [..]}: "in" on the dict raises TypeError
Frames ==
    [kind : {"handshake", "response"}, id : {0} \cup Ids]
    \cup [kind : {"invalid_json", "not_object", "unhashable_id"}, id : {0}]

\* ------------------------------------------------------------- the state
\* A caller thread runs one send_command at a time; the per-thread variables
\* describe its current call, or its last one until it calls again.
VARIABLES
    loop,              \* self._loop and the state of that event loop
    client,            \* self.client: a peer, or None
    connected,         \* self.connected
    command_id,        \* self._command_id
    pending_commands,  \* self._pending_commands: the slots of the dict, in
                       \* insertion order: <<id, owner, n>>, or Hole once
                       \* popped while an iterator is alive.  owner is the
                       \* thread whose call waits on the future; owner None:
                       \* that call is over and the future was completed n times
    hpc,               \* per connection: where its _handle_client coroutine is
    msg,               \* id of the frame _handle_message is working on
    late,              \* that frame arrived after a call for its id timed out
    iter,              \* the dict-values iterator of the finally block
    pc,                \* per thread: where it is in send_command
    tmp,               \* per thread: the value read by "+= 1"
    cmd_id,            \* per thread: N of its cmd_id, 0 before line 162
    fstate,            \* per thread: state of the asyncio future of its call
    fdata,             \* per thread: id of the frame given to set_result
    rf,                \* per thread: what result_future.result() delivers
    outcome,           \* per thread: what send_command returned or raised
    resolved,          \* per thread: completions of its future so far
    atDisc,            \* inside a finally block: the threads whose entry was
                       \* pending in the dict when the block was entered
    lastId,            \* the largest N handed out so far
    enable_browser,    \* HybridACI.enable_browser
    bridge,            \* HybridACI.bridge: None, or the bridge object
    browser_active,    \* what is_browser_active() returns at this moment
    act,               \* the agent action being executed, with its arguments
    apc,               \* where the agent is in that action
    used,              \* what the action's first test (_should_use_browser or
                       \* browser_available) returned
    issued,            \* the bridge commands the action has issued, in order
    resp,              \* what the last bridge command handed back
    visual,            \* the arguments of each call of the parent's method
    ret,               \* what the action returned, or "raised"
    system,            \* what platform.system() returns on this machine
    env,               \* what the window detector finds on this machine: the
                       \* native modules, the helper processes, the window in front
    info,              \* what get_active_window_info returned, or that it raised
    active             \* what is_browser_active returned

\* The window detector (gui_agents/s3/utils/window_detector.py).
detVars == <<system, env, info, active>>

\* The agent and the detector it asks: at rest while the bridge runs.
aciVars == <<enable_browser, bridge, browser_active, act, apc, used, issued,
             resp, visual, ret, detVars>>

vars == <<loop, client, connected, command_id, pending_commands, hpc, msg,
          late, iter, pc, tmp, cmd_id, fstate, fdata, rf, outcome, resolved,
          atDisc, lastId, aciVars>>

bridgeVars == <<loop, client, connected, command_id, pending_commands>>
callVars == <<pc, tmp, cmd_id, rf, outcome, lastId>>
futVars == <<fstate, fdata, resolved>>
loopVars == <<hpc, msg, late, iter, atDisc>>

\* --------------------------------------------- the dict _pending_commands
Hole == <<0, 0, 0>>
NoIter == [used |-> 0, len |-> 0, pos |-> 0]

Live(d) == {k \in 1..Len(d) : d[k] # Hole}
Size(d) == Cardinality(Live(d))
Has(d, i) == \E k \in Live(d) : d[k][1] = i
SlotOf(d, i) == CHOOSE k \in Live(d) : d[k][1] = i
Owners(d) == {d[k][2] : k \in Live(d)} \ {None}

RECURSIVE Compact(_)
Compact(d) ==
    IF d = <<>> THEN <<>>
    ELSE IF Head(d) = Hole THEN Compact(Tail(d))
    ELSE <<Head(d)>> \o Compact(Tail(d))

\* An iterator is alive only inside the finally block of _handle_client.
Iterating == \E p \in Peers : hpc[p] \in {"iter", "clear"}

\* d[i] = future of t: a new key is appended, an existing key keeps its slot.
Put(d, i, t) ==
    IF Has(d, i) THEN [d EXCEPT ![SlotOf(d, i)] = <<i, t, 0>>]
    ELSE Append(d, <<i, t, 0>>)

\* d.pop(i, None): the slot becomes a hole; the holes matter only to a live
\* iterator, so they are dropped when there is none.
Pop(d, i) ==
    LET e == IF Has(d, i) THEN [d EXCEPT ![SlotOf(d, i)] = Hole] ELSE d
    IN  IF Iterating THEN e ELSE Compact(e)

\* The call of t is over: a slot still holding its future holds a future
\* nobody waits on, completed n times so far.
Abandon(d, t, n) ==
    [k \in 1..Len(d) |-> IF d[k] # Hole /\ d[k][2] = t THEN <<d[k][1], None, n>> ELSE d[k]]

\* ------------------------------------------------------------------ Init
\* No agent action is being executed.
NoAct == [name |-> "none", arg |-> 0, desc |-> FALSE, enter |-> FALSE]
NoResp == [raised |-> FALSE, success |-> FALSE, result |-> "absent"]

\* get_active_window_info has not been called.
NoInfo == [kind |-> "none", is_browser |-> FALSE]

\* A Linux machine with xdotool and psutil and no window in front, on which
\* the detector has not been called.
DetIdle ==
    /\ system = "Linux"
    /\ env = [modules |-> TRUE, native |-> "ok", helper |-> "ok", helper2 |-> "ok",
              lookup |-> "ok", proc |-> "", title |-> ""]
    /\ info = NoInfo
    /\ active = "none"

AciIdle ==
    /\ act = NoAct
    /\ apc = "idle"
    /\ used = FALSE
    /\ issued = <<>>
    /\ resp = NoResp
    /\ visual = <<>>
    /\ ret = "none"

BridgeState(l) ==
    /\ loop = l
    /\ client = None
    /\ connected = FALSE
    /\ command_id = 0
    /\ pending_commands = <<>>
    /\ hpc = [p \in Peers |-> "idle"]
    /\ msg = 0
    /\ late = FALSE
    /\ iter = NoIter
    /\ pc = [t \in Callers |-> "idle"]
    /\ tmp = [t \in Callers |-> 0]
    /\ cmd_id = [t \in Callers |-> 0]
    /\ fstate = [t \in Callers |-> "none"]
    /\ fdata = [t \in Callers |-> 0]
    /\ rf = [t \in Callers |-> "none"]
    /\ outcome = [t \in Callers |-> "none"]
    /\ resolved = [t \in Callers |-> 0]
    /\ atDisc = {}
    /\ lastId = 0

\* The bridge before start(), beside an agent built with its defaults
\* (HybridACI.__init__, lines 34-35 and 47-52) that executes no action.
Init ==
    /\ BridgeState("none")
    /\ enable_browser = TRUE
    /\ bridge = 1
    /\ browser_active = FALSE
    /\ AciIdle
    /\ DetIdle

\* ------------------------------------------------- send_command (caller)
\* The call of t is over: of its locals only the outcome is kept.
Forget(t) ==
    /\ cmd_id' = [cmd_id EXCEPT ![t] = 0]
    /\ fstate' = [fstate EXCEPT ![t] = "none"]
    /\ fdata' = [fdata EXCEPT ![t] = 0]
    /\ resolved' = [resolved EXCEPT ![t] = 0]
    /\ rf' = [rf EXCEPT ![t] = "none"]

\* Line 157 without its first test: only "not self._loop" is looked at.
NotConnected_NoLoopOnly == loop = "none"

\* Line 157: "if not self.connected or not self._loop".
NotConnected == ~connected \/ loop = "none"

\* Lines 189 and 192 without the pop: the entry is left behind.
Deregister_Nothing(d, i) == d

\* Lines 189 and 192: self._pending_commands.pop(cmd_id, None).
Deregister(d, i) == Pop(d, i)

\* Line 186 as result_future.result(): a wait without a timeout.
ResultGivesUp_Never == FALSE

\* Line 186: result_future.result(timeout + 1) gives up by itself only when
\* the loop no longer runs the wait_for task.
ResultGivesUp == loop \in {"stopped", "closed"}

\* Caller threads are numbered in the order of their first call.
MayCall(t) ==
    /\ pc[t] \in {"idle", "returned", "raised"}
    /\ \A u \in Callers : u < t => pc[u] # "idle"

\* Lines 140-161: the call is entered, the connection is checked and, when it
\* is there, "+= 1" reads self._command_id.  (The check and the read touch
\* different fields and nothing else, so no step of another thread between
\* them changes what either sees.)
send_command(t) ==
    /\ MayCall(t)
    /\ IF NotConnected
       THEN /\ pc' = [pc EXCEPT ![t] = "returned"]
            /\ outcome' = [outcome EXCEPT ![t] = "NotConnected"]
            /\ UNCHANGED tmp
       ELSE /\ command_id < MaxId
            /\ pc' = [pc EXCEPT ![t] = "store"]
            /\ tmp' = [tmp EXCEPT ![t] = command_id]
            /\ outcome' = [outcome EXCEPT ![t] = "none"]
    /\ UNCHANGED <<bridgeVars, loopVars, futVars, cmd_id, rf, lastId>>
    /\ UNCHANGED aciVars

\* Line 161, second half: the incremented value is written back.
IncStore(t) ==
    /\ pc[t] = "store"
    /\ command_id' = tmp[t] + 1
    /\ tmp' = [tmp EXCEPT ![t] = 0]
    /\ pc' = [pc EXCEPT ![t] = "register"]
    /\ UNCHANGED <<loop, client, connected, pending_commands, loopVars, futVars,
                   cmd_id, rf, outcome, lastId>>
    /\ UNCHANGED aciVars

\* Lines 162-172: the id is formatted from a second read of the counter, the
\* future is created and stored under the id.
Register(t) ==
    /\ pc[t] = "register"
    /\ LET i == command_id IN
        /\ cmd_id' = [cmd_id EXCEPT ![t] = i]
        /\ lastId' = IF i > lastId THEN i ELSE lastId
        /\ fstate' = [fstate EXCEPT ![t] = "pending"]
        /\ pending_commands' = Put(pending_commands, i, t)
    /\ pc' = [pc EXCEPT ![t] = "send"]
    /\ UNCHANGED <<loop, client, connected, command_id, loopVars, fdata,
                   resolved, tmp, rf, outcome>>
    /\ UNCHANGED aciVars

\* Lines 175-185 with a caller that, when the send cannot be made, marks the
\* bridge as disconnected itself.
Send_MarksDisconnected(t) ==
    /\ pc[t] = "send"
    /\ IF client = None \/ loop = "closed"
       THEN /\ pc' = [pc EXCEPT ![t] = "raised"]
            /\ outcome' = [outcome EXCEPT ![t] =
                   IF client = None THEN "AttributeError" ELSE "RuntimeError"]
            /\ pending_commands' = Abandon(pending_commands, t, resolved[t])
            /\ Forget(t)
            /\ client' = None
            /\ connected' = FALSE
       ELSE /\ pc' = [pc EXCEPT ![t] = "waiting"]
            /\ UNCHANGED <<outcome, pending_commands, futVars, cmd_id, rf,
                           client, connected>>
    /\ UNCHANGED <<loop, command_id, loopVars, tmp, lastId>>
    /\ UNCHANGED aciVars

\* Lines 175-185: self.client.send(...) is evaluated in the caller thread and
\* handed to the loop, then wait_for(future, timeout) is.  client None:
\* AttributeError; closed loop: RuntimeError from line 175; neither is inside
\* the try, so the entry stays in the dict.  (A loop closed between lines 178
\* and 182 ends the call as ResultTimeout does, through line 191.)
Send(t) ==
    /\ pc[t] = "send"
    /\ IF client = None \/ loop = "closed"
       THEN /\ pc' = [pc EXCEPT ![t] = "raised"]
            /\ outcome' = [outcome EXCEPT ![t] =
                   IF client = None THEN "AttributeError" ELSE "RuntimeError"]
            /\ pending_commands' = Abandon(pending_commands, t, resolved[t])
            /\ Forget(t)
       ELSE /\ pc' = [pc EXCEPT ![t] = "waiting"]
            /\ UNCHANGED <<outcome, pending_commands, futVars, cmd_id, rf>>
    /\ UNCHANGED <<loop, client, connected, command_id, loopVars, tmp, lastId>>
    /\ UNCHANGED aciVars

\* Lines 186-193: result() returns what the wait_for task ended with.  The
\* TimeoutError of wait_for reaches the thread as concurrent.futures.TimeoutError
\* (asyncio.futures._convert_future_exc); on the interpreters modelled here
\* (Python 3.11 and later) that, asyncio.TimeoutError and the builtin
\* TimeoutError are one class, so line 188 handles it.  (On 3.8 to 3.10 they
\* are distinct classes, line 191 handles it and the error text is str(e).)
Return(t) ==
    /\ pc[t] = "waiting"
    /\ rf[t] # "none"
    /\ IF rf[t] = "result"
       THEN /\ outcome' = [outcome EXCEPT ![t] = "Response"]
            /\ pending_commands' = Abandon(pending_commands, t, resolved[t])
       ELSE /\ pending_commands' =
                   Abandon(Deregister(pending_commands, cmd_id[t]), t, resolved[t])
            /\ outcome' = [outcome EXCEPT ![t] =
                   IF rf[t] = "TimeoutError" THEN "TimedOut" ELSE "Disconnected"]
    /\ pc' = [pc EXCEPT ![t] = "returned"]
    /\ Forget(t)
    /\ UNCHANGED <<loop, client, connected, command_id, loopVars, tmp, lastId>>
    /\ UNCHANGED aciVars

\* Line 186 when the loop has stopped: the wait_for task never runs and
\* result(timeout + 1) raises concurrent.futures.TimeoutError, which line 188
\* handles as above.
ResultTimeout(t) ==
    /\ pc[t] = "waiting"
    /\ ResultGivesUp
    /\ rf[t] = "none"
    /\ pending_commands' =
           Abandon(Deregister(pending_commands, cmd_id[t]), t, resolved[t])
    /\ outcome' = [outcome EXCEPT ![t] = "TimedOut"]
    /\ pc' = [pc EXCEPT ![t] = "returned"]
    /\ Forget(t)
    /\ UNCHANGED <<loop, client, connected, command_id, loopVars, tmp, lastId>>
    /\ UNCHANGED aciVars

\* ------------------------------------------------------ the event loop
\* The loop is between two callbacks: no handler is inside _handle_message
\* or inside its finally block.
LoopIdle ==
    /\ loop = "running"
    /\ \A p \in Peers : hpc[p] \in {"idle", "open", "closed", "aborted"}

\* Lines 116 and 134 without the "if not future.done()" guard.
Done_Unchecked(e) == FALSE

\* Lines 116 and 134: future.done(), for the future held by a slot.
Done(e) == IF e[2] = None THEN e[3] > 0 ELSE fstate[e[2]] # "pending"

\* Lines 131-133 matching by arrival order: the oldest entry takes the frame.
Lookup_Oldest(d, i) ==
    IF Live(d) = {} THEN i
    ELSE d[CHOOSE k \in Live(d) : \A j \in Live(d) : k <= j][1]

\* Lines 131-133: the dict key a response frame with id i is looked up under.
Lookup(d, i) == i

\* Lines 110-112 and the creation of the iterator of line 115: the handler of
\* connection p enters its finally block.
Finally(p) ==
    /\ client' = None
    /\ connected' = FALSE
    /\ hpc' = [hpc EXCEPT ![p] = "iter"]
    /\ msg' = 0
    /\ late' = FALSE
    /\ iter' = [used |-> Size(pending_commands),
                len |-> Size(pending_commands), pos |-> 1]
    /\ atDisc' = {t \in Owners(pending_commands) : fstate[t] = "pending"}

\* Lines 86-101 as a server that serves one connection only: once a handler
\* has ended, no further peer is accepted.
Connect_Once(p) ==
    /\ LoopIdle
    /\ hpc[p] = "idle"
    /\ \A q \in Peers : q < p => hpc[q] = "open"
    /\ client' = p
    /\ connected' = TRUE
    /\ hpc' = [hpc EXCEPT ![p] = "open"]
    /\ UNCHANGED <<loop, command_id, pending_commands, msg, late, iter, atDisc,
                   callVars, futVars>>
    /\ UNCHANGED aciVars

\* Lines 86-101: a peer connects; its handler overwrites client and connected.
\* websockets.serve starts one handler per connection and sets no limit, so a
\* peer is accepted whatever the state of the earlier connections.
\* Connections are numbered in the order they are accepted.
Connect(p) ==
    /\ LoopIdle
    /\ hpc[p] = "idle"
    /\ \A q \in Peers : q < p => hpc[q] # "idle"
    /\ client' = p
    /\ connected' = TRUE
    /\ hpc' = [hpc EXCEPT ![p] = "open"]
    /\ UNCHANGED <<loop, command_id, pending_commands, msg, late, iter, atDisc,
                   callVars, futVars>>
    /\ UNCHANGED aciVars

\* Lines 104-109: the connection of p is lost (peer close, protocol error,
\* I/O failure): "async for" raises and the finally block starts.
ConnectionLost(p) ==
    /\ LoopIdle
    /\ hpc[p] = "open"
    /\ Finally(p)
    /\ UNCHANGED <<loop, command_id, pending_commands, callVars, futVars>>
    /\ UNCHANGED aciVars

\* Lines 120-132 and 137-138: a frame of p is decoded and classified.  A frame
\* that makes data.get or the "in" test raise leaves _handle_message as an
\* exception that line 108 catches: the finally block follows.
Raises(f) == f.kind \in {"not_object", "unhashable_id"}

\* Lines 126-132 without the return of line 128: every frame with an id is
\* looked up.
Correlates_AnyKind(f) ==
    /\ f.id # 0
    /\ Has(pending_commands, Lookup(pending_commands, f.id))

\* Lines 126-132: a frame that is no handshake and whose id is a key of the
\* dict goes on to lines 133-135.
Correlates(f) ==
    /\ f.kind = "response"
    /\ f.id # 0
    /\ Has(pending_commands, Lookup(pending_commands, f.id))

_handle_message(p, f) ==
    /\ LoopIdle
    /\ hpc[p] = "open"
    /\ IF Raises(f)
       THEN /\ Finally(p)
            /\ UNCHANGED <<loop, command_id, pending_commands, callVars, futVars>>
       ELSE IF Correlates(f)
       THEN /\ hpc' = [hpc EXCEPT ![p] = "pop"]
            /\ msg' = f.id
            /\ late' = \E t \in Callers : cmd_id[t] = f.id /\ fstate[t] = "cancelled"
            /\ UNCHANGED <<bridgeVars, iter, atDisc, callVars, futVars>>
       ELSE UNCHANGED vars
    /\ UNCHANGED aciVars

\* future.set_result / set_exception / cancel on the future held by slot e,
\* as the assignments to the future variables and to the slot.
Complete(e, how, data) ==
    IF e[2] = None
    THEN UNCHANGED futVars
    ELSE /\ fstate' = [fstate EXCEPT ![e[2]] = how]
         /\ fdata' = [fdata EXCEPT ![e[2]] = data]
         /\ resolved' = [resolved EXCEPT ![e[2]] = @ + 1]

Completed(e) == IF e[2] = None THEN <<e[1], None, e[3] + 1>> ELSE e

\* Lines 133-135: pop(cmd_id) has no default: if a caller removed the entry
\* since the "in" test, KeyError leaves through line 108 to the finally block.
SetResult(p) ==
    /\ loop = "running"
    /\ hpc[p] = "pop"
    /\ LET k == Lookup(pending_commands, msg) IN
        IF Has(pending_commands, k)
        THEN LET e == pending_commands[SlotOf(pending_commands, k)] IN
             /\ pending_commands' = Pop(pending_commands, k)
             /\ IF Done(e) THEN UNCHANGED futVars ELSE Complete(e, "result", msg)
             /\ hpc' = [hpc EXCEPT ![p] = "open"]
             /\ msg' = 0
             /\ late' = FALSE
             /\ UNCHANGED <<loop, client, connected, command_id, iter, atDisc, callVars>>
        ELSE /\ Finally(p)
             /\ UNCHANGED <<loop, command_id, pending_commands, callVars, futVars>>
    /\ UNCHANGED aciVars

\* Lines 115-117: one round of the for loop.  The values iterator raises
\* RuntimeError when the dict changed size since it was created, or when it
\* finds more entries than it was created for; the exception leaves the
\* finally block before line 118.
CancelNext(p) ==
    /\ loop = "running"
    /\ hpc[p] = "iter"
    /\ LET d == pending_commands
           rest == {k \in Live(d) : k >= iter.pos}
       IN  IF iter.used # Size(d) \/ (rest # {} /\ iter.len = 0)
           THEN /\ hpc' = [hpc EXCEPT ![p] = "aborted"]
                /\ iter' = NoIter
                /\ atDisc' = {}
                /\ pending_commands' = Compact(d)
                /\ UNCHANGED futVars
           ELSE IF rest = {}
           THEN /\ hpc' = [hpc EXCEPT ![p] = "clear"]
                /\ UNCHANGED <<futVars, iter, atDisc, pending_commands>>
           ELSE LET k == CHOOSE x \in rest : \A y \in rest : x <= y IN
                /\ iter' = [iter EXCEPT !.pos = k + 1, !.len = @ - 1]
                /\ IF Done(d[k])
                   THEN UNCHANGED <<futVars, pending_commands>>
                   ELSE /\ Complete(d[k], "exception", 0)
                        /\ pending_commands' = [d EXCEPT ![k] = Completed(d[k])]
                /\ UNCHANGED <<hpc, atDisc>>
    /\ UNCHANGED <<loop, client, connected, command_id, msg, late, callVars>>
    /\ UNCHANGED aciVars

\* Line 118: self._pending_commands.clear().
Clear(p) ==
    /\ loop = "running"
    /\ hpc[p] = "clear"
    /\ hpc' = [hpc EXCEPT ![p] = "closed"]
    /\ iter' = NoIter
    /\ atDisc' = {}
    /\ pending_commands' = <<>>
    /\ UNCHANGED <<loop, client, connected, command_id, msg, late, callVars, futVars>>
    /\ UNCHANGED aciVars

\* Line 183: the wait_for task of the call of t runs: it ends with the state
\* of the future, or, the future still pending, with the timeout, which
\* cancels the future.
Deliver(t) ==
    /\ LoopIdle
    /\ pc[t] = "waiting"
    /\ rf[t] = "none"
    /\ IF fstate[t] # "pending"
       THEN /\ rf' = [rf EXCEPT ![t] =
                   IF fstate[t] = "result" THEN "result" ELSE "ConnectionError"]
            /\ UNCHANGED futVars
       ELSE /\ rf' = [rf EXCEPT ![t] = "TimeoutError"]
            /\ fstate' = [fstate EXCEPT ![t] = "cancelled"]
            /\ resolved' = [resolved EXCEPT ![t] = @ + 1]
            /\ UNCHANGED fdata
    /\ UNCHANGED <<bridgeVars, loopVars, pc, tmp, cmd_id, outcome, lastId>>
    /\ UNCHANGED aciVars

\* Lines 45-59 and 71-93: start() creates the thread, the loop and the server.
\* (A second start() after stop() is not part of the model.)
start ==
    /\ loop = "none"
    /\ loop' = "running"
    /\ UNCHANGED <<client, connected, command_id, pending_commands, loopVars,
                   callVars, futVars>>
    /\ UNCHANGED aciVars

\* Lines 63-69 and 78: stop() makes run_forever return between two callbacks;
\* the handlers are left where they are.
stop ==
    /\ LoopIdle
    /\ loop' = "stopped"
    /\ UNCHANGED <<client, connected, command_id, pending_commands, loopVars,
                   callVars, futVars>>
    /\ UNCHANGED aciVars

\* Lines 81-82: the server thread closes the loop.
LoopClose ==
    /\ loop = "stopped"
    /\ loop' = "closed"
    /\ UNCHANGED <<client, connected, command_id, pending_commands, loopVars,
                   callVars, futVars>>
    /\ UNCHANGED aciVars

\* ------------------------------------------------------ specifications
Next ==
    \/ \E t \in Callers : send_command(t)
    \/ \E t \in Callers : IncStore(t)
    \/ \E t \in Callers : Register(t)
    \/ \E t \in Callers : Send(t)
    \/ \E t \in Callers : Return(t)
    \/ \E t \in Callers : ResultTimeout(t)
    \/ \E p \in Peers : Connect(p)
    \/ \E p \in Peers, f \in Frames : _handle_message(p, f)
    \/ \E p \in Peers : ConnectionLost(p)
    \/ \E p \in Peers : SetResult(p)
    \/ \E p \in Peers : CancelNext(p)
    \/ \E p \in Peers : Clear(p)
    \/ \E t \in Callers : Deliver(t)
    \/ start
    \/ stop
    \/ LoopClose

Spec == Init /\ [][Next]_vars

\* The scheduling the code relies on: a caller thread that can take its next
\* statement takes it, the loop finishes the callback it is in, and the loop
\* runs the ready wait_for task of a call whenever it is between callbacks
\* (asyncio runs ready callbacks in FIFO order).
CallerStep(t) ==
    IncStore(t) \/ Register(t) \/ Send(t) \/ Return(t) \/ ResultTimeout(t)

LoopStep == \E p \in Peers : SetResult(p) \/ CancelNext(p) \/ Clear(p)

FairSpec ==
    /\ Spec
    /\ \A t \in Callers : WF_vars(CallerStep(t))
    /\ \A t \in Callers : SF_vars(Deliver(t))
    /\ WF_vars(LoopStep)


\* ------------------------------------------------------------- HybridACI
\* The arguments of an agent action (description, text, url, amount), as a
\* token: the code only passes them on.
Args == {1, 2}

\* What the "result" key of a response holds: no such key, null, a value that
\* is no object, an object without a truthy indicator (clicked, typed, found,
\* screenshot), an object with one.
Results == {"absent", "null", "scalar", "object", "positive"}

\* What a bridge command hands back to the agent: a mapping (the three
\* failure mappings of send_command have success False and no result; a frame
\* of the peer is any object), or an exception raised by send_command
\* (bridge.py line 176, when the peer disconnects after the test of line 157).
Responses ==
    [raised : {FALSE}, success : BOOLEAN, result : Results]
    \cup [raised : {TRUE}, success : {FALSE}, result : {"absent"}]

\* The states of the agent besides its actions: built without the browser,
\* built with it but without starting the bridge, built with the bridge.
AciInit ==
    /\ \E e \in BOOLEAN, b \in {None, 1} :
          /\ (b # None => e)
          /\ enable_browser = e
          /\ bridge = b
          /\ BridgeState(IF b # None THEN "running" ELSE "none")
    /\ browser_active \in BOOLEAN
    /\ AciIdle
    /\ DetIdle

\* The variables the agent actions leave alone: those of the bridge's server
\* and callers, and those of the window detector, of which the agent sees
\* browser_active only.
serverVars == <<loop, command_id, pending_commands, hpc, msg, late, iter, pc,
                tmp, cmd_id, fstate, fdata, rf, outcome, resolved, atDisc, lastId,
                detVars>>

\* Lines 58-63: the property browser_available.
browser_available == enable_browser /\ bridge # None /\ connected

\* Lines 65-71 without the test of the active window.
ShouldUse_ConnectionOnly == browser_available

\* Lines 65-71 without the test of the connection.
ShouldUse_ForegroundOnly == browser_active

\* Lines 65-71: _should_use_browser().
_should_use_browser == browser_available /\ browser_active

\* Lines 86, 114, 119 looking up a key the peer never sets.
Indicator_WrongKey(r) ==
    IF ~r.success THEN "no"
    ELSE IF r.result \in {"null", "scalar"} THEN "raise"
    ELSE "no"

\* Lines 86, 114, 119, 256: result.get("success") and
\* result.get("result", {}).get(key).  get's default only replaces a missing
\* key: a null or non-object "result" makes the second .get raise
\* AttributeError.
Indicator(r) ==
    IF ~r.success THEN "no"
    ELSE IF r.result \in {"null", "scalar"} THEN "raise"
    ELSE IF r.result = "positive" THEN "yes"
    ELSE "no"

\* An action is entered: its arguments, and nothing issued or returned yet.
Begin(name, a, d, e) ==
    /\ apc \in {"idle", "done"}
    /\ act' = [name |-> name, arg |-> a, desc |-> d, enter |-> e]
    /\ visual' = <<>>
    /\ UNCHANGED <<enable_browser, bridge, browser_active, client, connected, serverVars>>

\* The action ends without the parent's method: it returns v or raises.
Leave(v) ==
    /\ apc' = "done"
    /\ ret' = v

\* Lines 138 and 163: click() and type() up to the test of _should_use_browser.
click(a) ==
    /\ Begin("click", a, TRUE, FALSE)
    /\ used' = _should_use_browser
    /\ apc' = IF _should_use_browser THEN "try" ELSE "fallback"
    /\ issued' = <<>> /\ resp' = NoResp /\ ret' = "none"

type(a, d, e) ==
    /\ Begin("type", a, d, e)
    /\ used' = _should_use_browser
    /\ apc' = IF _should_use_browser THEN "try" ELSE "fallback"
    /\ issued' = <<>> /\ resp' = NoResp /\ ret' = "none"

\* Lines 73-92 and 139-141.
_try_browser_click ==
    /\ apc = "try"
    /\ act.name = "click"
    /\ IF ~browser_available
       THEN /\ apc' = "fallback"
            /\ UNCHANGED <<issued, resp, ret>>
       ELSE \E r \in Responses :
            /\ issued' = Append(issued, "click")
            /\ resp' = r
            /\ IF r.raised \/ Indicator(r) = "raise" THEN Leave("raised")
               ELSE IF Indicator(r) = "yes" THEN Leave("marker")
               ELSE apc' = "fallback" /\ ret' = ret
    /\ UNCHANGED <<enable_browser, bridge, browser_active, act, used, visual,
                   client, connected, serverVars>>

\* Lines 94-124 and 164-169: find_element when a description was given, then
\* type_text.  (Nothing the agent reads can change between the two commands.)
_try_browser_type ==
    /\ apc = "try"
    /\ act.name = "type"
    /\ IF ~browser_available
       THEN /\ apc' = "fallback"
            /\ UNCHANGED <<issued, resp, ret>>
       ELSE \E f \in Responses, r \in Responses :
            IF act.desc /\ (f.raised \/ Indicator(f) # "yes")
            THEN /\ issued' = Append(issued, "find_element")
                 /\ resp' = f
                 /\ IF f.raised \/ Indicator(f) = "raise" THEN Leave("raised")
                    ELSE apc' = "fallback" /\ ret' = ret
            ELSE /\ issued' = issued \o (IF act.desc THEN <<"find_element">> ELSE <<>>)
                               \o <<"type">>
                 /\ resp' = r
                 /\ IF r.raised \/ Indicator(r) = "raise" THEN Leave("raised")
                    ELSE IF Indicator(r) = "yes"
                    THEN IF act.enter THEN apc' = "enter" /\ ret' = ret
                         ELSE Leave("marker")
                    ELSE apc' = "fallback" /\ ret' = ret
    /\ UNCHANGED <<enable_browser, bridge, browser_active, act, used, visual,
                   client, connected, serverVars>>

\* Lines 171-173: the Enter key as one more "type" command, whose mapping is
\* not looked at.
PressEnter ==
    /\ apc = "enter"
    /\ \E r \in Responses :
          /\ issued' = Append(issued, "type")
          /\ resp' = r
          /\ IF r.raised THEN Leave("raised") ELSE Leave("marker")
    /\ UNCHANGED <<enable_browser, bridge, browser_active, act, used, visual,
                   client, connected, serverVars>>

\* Lines 144-149, 176-181, 204-208: the parent's method (the visual executor)
\* is called with the arguments of the action and its output is returned.
Visual ==
    /\ apc = "fallback"
    /\ visual' = Append(visual, act.arg)
    /\ Leave("visual")
    /\ UNCHANGED <<enable_browser, bridge, browser_active, act, used, issued, resp,
                   client, connected, serverVars>>

\* Lines 183-201: scroll() up to the parent's method.
scroll(a) ==
    /\ Begin("scroll", a, FALSE, FALSE)
    /\ used' = _should_use_browser
    /\ IF _should_use_browser
       THEN \E r \in Responses :
            /\ issued' = <<"scroll">>
            /\ resp' = r
            /\ IF r.raised THEN Leave("raised")
               ELSE IF r.success THEN Leave("marker")
               ELSE apc' = "fallback" /\ ret' = "none"
       ELSE /\ apc' = "fallback"
            /\ issued' = <<>> /\ resp' = NoResp /\ ret' = "none"

\* Lines 210-224: goto().
goto(a) ==
    /\ Begin("goto", a, FALSE, FALSE)
    /\ used' = browser_available
    /\ IF browser_available
       THEN \E r \in Responses :
            /\ issued' = <<"navigate">>
            /\ resp' = r
            /\ IF r.raised THEN Leave("raised")
               ELSE IF r.success THEN Leave("marker")
               ELSE Leave("os_open")
       ELSE /\ issued' = <<>> /\ resp' = NoResp
            /\ Leave("os_open")

\* Lines 226-241: get_page_content() returns result.get("result").
get_page_content ==
    /\ Begin("get_page_content", 0, FALSE, FALSE)
    /\ used' = _should_use_browser
    /\ IF _should_use_browser
       THEN \E r \in Responses :
            /\ issued' = <<"get_dom">>
            /\ resp' = r
            /\ IF r.raised THEN Leave("raised")
               ELSE IF r.success /\ r.result \notin {"absent", "null"} THEN Leave("content")
               ELSE Leave("None")
       ELSE /\ issued' = <<>> /\ resp' = NoResp
            /\ Leave("None")

\* Lines 243-258: get_browser_screenshot().
get_browser_screenshot ==
    /\ Begin("get_browser_screenshot", 0, FALSE, FALSE)
    /\ used' = browser_available
    /\ IF browser_available
       THEN \E r \in Responses :
            /\ issued' = <<"screenshot">>
            /\ resp' = r
            /\ IF r.raised \/ Indicator(r) = "raise" THEN Leave("raised")
               ELSE IF Indicator(r) = "yes" THEN Leave("screenshot")
               ELSE Leave("None")
       ELSE /\ issued' = <<>> /\ resp' = NoResp
            /\ Leave("None")

\* bridge.py lines 100-101 and 111-112, seen from the agent: a peer connects
\* to the started bridge, or its connection ends.
PeerChange ==
    /\ bridge # None
    /\ connected' = ~connected
    /\ client' = IF connected THEN None ELSE 1
    /\ UNCHANGED <<serverVars, enable_browser, bridge, browser_active, act, apc,
                   used, issued, resp, visual, ret>>

\* window_detector.py lines 165-168: the user brings another window to the
\* front, so is_browser_active() changes its answer.
WindowChange ==
    /\ browser_active' = ~browser_active
    /\ UNCHANGED <<serverVars, client, connected, enable_browser, bridge, act, apc,
                   used, issued, resp, visual, ret>>

AciNext ==
    \/ get_browser_screenshot
    \/ get_page_content
    \/ \E a \in Args : click(a)
    \/ \E a \in Args, d \in BOOLEAN, e \in BOOLEAN : type(a, d, e)
    \/ _try_browser_click
    \/ _try_browser_type
    \/ PressEnter
    \/ Visual
    \/ \E a \in Args : scroll(a)
    \/ \E a \in Args : goto(a)
    \/ PeerChange
    \/ WindowChange

AciSpec == AciInit /\ [][AciNext]_vars

\* ------------------------------------------------------- window detector
\* What platform.system() can return.
Systems == {"Windows", "Darwin", "Linux", "FreeBSD"}

\* Names of the process in front and titles of its window: browsers as each
\* platform names them, and an editor.
Procs == {"", "Chrome.exe", "Google Chrome", "chromium-browser", "Code"}
Titles == {"", "Mozilla Firefox", "notes.txt"}

\* str.lower() on the strings above.
Lower(s) ==
    CASE s = "Windows" -> "windows"
      [] s = "Darwin" -> "darwin"
      [] s = "Linux" -> "linux"
      [] s = "FreeBSD" -> "freebsd"
      [] s = "Chrome.exe" -> "chrome.exe"
      [] s = "Google Chrome" -> "google chrome"
      [] s = "Code" -> "code"
      [] s = "Mozilla Firefox" -> "mozilla firefox"
      [] OTHER -> s

\* "b in s" for a lower-case string s above and a word b of the Linux list.
Contains(s, b) ==
    \/ s \in {"chrome.exe", "google chrome"} /\ b = "chrome"
    \/ s = "chromium-browser" /\ b = "chromium"
    \/ s = "mozilla firefox" /\ b = "firefox"

\* Lines 14-26.
BROWSER_PROCESSES ==
    [windows |-> {"chrome.exe", "msedge.exe", "firefox.exe", "brave.exe",
                  "opera.exe", "vivaldi.exe", "iexplore.exe"},
     darwin |-> {"Google Chrome", "Microsoft Edge", "Firefox", "Safari",
                 "Brave Browser", "Opera", "Vivaldi"},
     linux |-> {"chrome", "chromium", "firefox", "brave", "opera", "vivaldi", "edge"}]

\* What the detector finds on the machine.
\*   modules  the native modules can be imported (win32gui, win32process and
\*            psutil on Windows, AppKit on macOS, psutil elsewhere)
\*   native   the native calls return, or raise (GetForegroundWindow and its
\*            companions; frontmostApplication() returning None)
\*   helper   the xdotool run for the title: prints it, prints nothing (it
\*            failed with an exit code), or subprocess.run raises (timeout,
\*            xdotool not installed)
\*   helper2  the same for the xdotool run for the pid
\*   lookup   psutil.Process(pid).name() returns, or raises
\*   proc     the name of the process in front
\*   title    the title of its window
Envs ==
    [modules : BOOLEAN, native : {"ok", "raises"},
     helper : {"ok", "empty", "raises"}, helper2 : {"ok", "empty", "raises"},
     lookup : {"ok", "fails"}, proc : Procs, title : Titles]

\* An exception leaves the function.
Raised == [kind |-> "raised", is_browser |-> FALSE]

\* Lines 155-162.
_get_active_window_fallback == [kind |-> "fallback", is_browser |-> FALSE]

\* Lines 58-86.
_get_active_window_windows(e) ==
    IF ~e.modules THEN _get_active_window_fallback
    ELSE IF e.native = "raises" THEN Raised
    ELSE LET process_name == IF e.lookup = "ok" THEN e.proc ELSE ""
         IN  [kind |-> "native",
              is_browser |->
                  Lower(process_name) \in {Lower(b) : b \in BROWSER_PROCESSES.windows}]

\* Lines 89-105.
_get_active_window_macos(e) ==
    IF ~e.modules THEN _get_active_window_fallback
    ELSE IF e.native = "raises" THEN Raised
    ELSE [kind |-> "native", is_browser |-> e.proc \in BROWSER_PROCESSES.darwin]

\* Lines 108-152.
_get_active_window_linux(e) ==
    IF e.helper = "raises" \/ e.helper2 = "raises" THEN _get_active_window_fallback
    ELSE LET title == IF e.helper = "ok" THEN e.title ELSE ""
             process_name ==
                 IF e.helper2 = "ok" /\ e.modules /\ e.lookup = "ok"
                 THEN e.proc ELSE ""
         IN  [kind |-> "native",
              is_browser |->
                  \E b \in BROWSER_PROCESSES.linux :
                      Contains(Lower(process_name), b) \/ Contains(Lower(title), b)]

\* Lines 41-55 without the except clause.
Caught_Nothing(r) == r

\* Lines 41 and 47-55: "except Exception" turns an exception into the
\* mapping with "error".
Caught(r) ==
    IF r.kind = "raised" THEN [kind |-> "error", is_browser |-> FALSE] ELSE r

\* Lines 29-55.
GetInfo(s, e) ==
    Caught(IF Lower(s) = "windows" THEN _get_active_window_windows(e)
           ELSE IF Lower(s) = "darwin" THEN _get_active_window_macos(e)
           ELSE _get_active_window_linux(e))

\* Every machine and window in front, before the detector is called.
DetInit ==
    /\ BridgeState("none")
    /\ enable_browser = TRUE
    /\ bridge = 1
    /\ browser_active = FALSE
    /\ AciIdle
    /\ system \in Systems
    /\ env \in Envs
    /\ info = NoInfo
    /\ active = "none"

\* What the detector leaves alone.
otherVars == <<bridgeVars, callVars, futVars, loopVars, enable_browser, bridge,
               browser_active, act, apc, used, issued, resp, visual, ret>>

get_active_window_info ==
    /\ info' = GetInfo(system, env)
    /\ UNCHANGED <<system, env, active, otherVars>>

\* Lines 165-168: info.get("is_browser", False) of what
\* get_active_window_info returns.
is_browser_active ==
    /\ info' = GetInfo(system, env)
    /\ active' = IF info'.kind = "raised" THEN "raised"
                 ELSE IF info'.is_browser THEN "True" ELSE "False"
    /\ UNCHANGED <<system, env, otherVars>>

DetNext == get_active_window_info \/ is_browser_active

DetSpec == DetInit /\ [][DetNext]_vars

\* ---------------------------------------------------------------- claims
InCall(t) == pc[t] \in {"store", "register", "send", "waiting"}
InFinally(p) == hpc[p] \in {"iter", "clear"}
Mapping == {"NotConnected", "Disconnected", "TimedOut", "Response"}

\* C1: when a connection is lost, the finally block of its handler leaves the
\* registry empty and the future of every call whose entry was pending when the
\* block was entered completed with ConnectionError("Extension disconnected").
C1_CancelledOnDisconnect ==
    [][\A p \in Peers :
          (InFinally(p) /\ ~InFinally(p)') =>
             /\ pending_commands' = <<>>
             /\ \A t \in atDisc : fstate'[t] = "exception"]_vars

\* C2: send_command never raises: a call ends returned, with a result mapping.
C2_NeverRaises ==
    \A t \in Callers : pc[t] # "raised" /\ (pc[t] = "returned" => outcome[t] \in Mapping)

\* C3: every correlation id handed out is larger than every id handed out
\* before it, so no two calls obtain the same id.
C3_IdsStrictlyIncrease ==
    [][\A t \in Callers :
          (pc[t] = "register" /\ pc'[t] = "send") => cmd_id'[t] > lastId]_vars

\* C4: every send_command call that was entered ends (it returns or raises),
\* also when the peer never answers, disconnects, or the server is stopped.
C4_CallCompletes == \A t \in Callers : InCall(t) ~> ~InCall(t)

C4_Witness ==
    \E t \in Callers :
        /\ pc[t] = "returned"
        /\ outcome[t] = "TimedOut"
        /\ loop \in {"stopped", "closed"}
        /\ connected

\* C5: a call that ends by timeout (its wait_for timed out, or result() gave up
\* with no outcome of the wait_for task) returns "Command timed out", and a call
\* that returns "Command timed out" leaves no entry under its id in the
\* registry at the moment it returns.
C5_TimeoutDeregisters ==
    [][\A t \in Callers :
          (pc[t] = "waiting" /\ pc'[t] # "waiting") =>
             /\ rf[t] \in {"TimeoutError", "none"} =>
                    (pc'[t] = "returned" /\ outcome'[t] = "TimedOut")
             /\ outcome'[t] = "TimedOut" => ~Has(pending_commands', cmd_id[t])]_vars

C5_Witness ==
    \E t \in Callers :
        pc[t] = "returned" /\ outcome[t] = "TimedOut" /\ loop = "running" /\ connected

\* C6: a response frame that arrives after a call for its id has timed out is
\* dropped: _handle_message returns without raising, completes no future,
\* removes no entry whose future is pending, and leaves client and connected
\* as they are.
C6_LateResponseDropped ==
    [][\A p \in Peers :
          (hpc[p] = "pop" /\ late /\ hpc'[p] # "pop") =>
             /\ hpc'[p] = "open"
             /\ UNCHANGED <<fstate, fdata, outcome, client, connected>>
             /\ \A k \in Live(pending_commands) :
                   ~Done(pending_commands[k]) =>
                       Has(pending_commands', pending_commands[k][1])]_vars

\* C7: a future completed by a response holds the frame whose id is the id of
\* the command its call registered, whatever the order of the responses.
C7_MatchedById ==
    \A t \in Callers : fstate[t] = "result" => (fdata[t] = cmd_id[t] /\ cmd_id[t] # 0)

C7_Witness ==
    \E t, u \in Callers :
        /\ cmd_id[t] # 0 /\ cmd_id[t] < cmd_id[u]
        /\ pc[t] = "waiting" /\ fstate[t] = "pending"
        /\ pc[u] = "waiting" /\ rf[u] = "result" /\ fdata[u] = cmd_id[u]

\* C8: the cancellation of the finally block runs to completion (the for loop
\* is never left by an exception), and when clear() runs every entry of the
\* registry, also one added while the loop ran, has a completed future.
C8_CancellationAtomic ==
    [][\A p \in Peers :
          /\ hpc[p] = "iter" => hpc'[p] \in {"iter", "clear"}
          /\ (hpc[p] = "clear" /\ hpc'[p] # "clear") =>
                \A k \in Live(pending_commands) : Done(pending_commands[k])]_vars

\* C9: a send_command entered while connected is false or no loop exists
\* returns "Extension not connected" in that step: it takes no id, registers
\* no entry and never reaches the statements that send the frame and wait.
C9_NotConnectedImmediate ==
    [][\A t \in Callers :
          (~InCall(t) /\ (~connected \/ loop = "none")
              /\ <<pc[t], outcome[t]>> # <<pc[t], outcome[t]>>') =>
             /\ pc'[t] = "returned"
             /\ outcome'[t] = "NotConnected"
             /\ cmd_id'[t] = 0
             /\ UNCHANGED <<command_id, pending_commands, lastId, tmp>>]_vars

C9_Witness ==
    \E t \in Callers :
        /\ pc[t] = "returned" /\ outcome[t] = "NotConnected"
        /\ loop = "running"
        /\ \E p \in Peers : hpc[p] = "closed"

\* C10: no future is completed a second time, by a response, by the disconnect
\* cancellation or by the timeout in any order; a response frame that finds
\* the future under its id already completed changes no future and is not an
\* error.
C10_ResolvedOnce ==
    /\ [](/\ \A t \in Callers : resolved[t] <= 1
          /\ \A k \in Live(pending_commands) : pending_commands[k][3] <= 1)
    /\ [][\A p \in Peers :
             (/\ hpc[p] = "pop"
              /\ hpc'[p] # "pop"
              /\ Has(pending_commands, msg)
              /\ Done(pending_commands[SlotOf(pending_commands, msg)])) =>
                (hpc'[p] = "open" /\ UNCHANGED <<fstate, fdata, resolved>>)]_vars

C10_Witness ==
    \E p \in Peers :
        /\ hpc[p] = "pop"
        /\ Has(pending_commands, msg)
        /\ Done(pending_commands[SlotOf(pending_commands, msg)])

\* C11: a frame that is not a well-formed handshake or response (invalid JSON,
\* valid JSON that is no object, an object with no id or with an id of an
\* unexpected type) is dropped: handling it leaves the connection open, the
\* bridge connected and the pending calls as they are.
C11_BadFrameDropped ==
    [][\A p \in Peers, f \in Frames :
          (/\ f.kind \in {"invalid_json", "not_object", "unhashable_id"}
                 \/ (f.kind = "response" /\ f.id = 0)
           /\ _handle_message(p, f)) =>
             /\ hpc'[p] = "open"
             /\ UNCHANGED <<client, connected, pending_commands, fstate, fdata>>]_vars

\* C12: click, type or scroll entered while the peer is not connected or the
\* active window is no browser issues no bridge command, calls the parent's
\* method once with the arguments of the action and returns its output.
C12_VisualWhenNotBrowser ==
    /\ [][((\/ \E a \in Args : click(a)
            \/ \E a \in Args, d \in BOOLEAN, e \in BOOLEAN : type(a, d, e)
            \/ \E a \in Args : scroll(a))
           /\ (~connected \/ ~browser_active)) =>
              (apc' = "fallback" /\ issued' = <<>> /\ visual' = <<>>)]_vars
    /\ [][(apc = "fallback" /\ apc' # "fallback") =>
              /\ apc' = "done"
              /\ ret' = "visual"
              /\ visual' = Append(visual, act.arg)
              /\ issued' = issued /\ act' = act]_vars

C12_Witness ==
    /\ act.name \in {"click", "type", "scroll"}
    /\ apc = "done" /\ ~used /\ connected /\ ~browser_active
    /\ issued = <<>> /\ visual = <<act.arg>> /\ ret = "visual"

\* C13: a click whose bridge command came back with success and clicked true
\* returns the completed marker, has issued the click command once and has
\* not called the parent's method.
C13_DomClick ==
    (/\ act.name = "click"
     /\ apc \in {"fallback", "done"}
     /\ issued # <<>>
     /\ ~resp.raised /\ resp.success /\ resp.result = "positive") =>
        (apc = "done" /\ ret = "marker" /\ issued = <<"click">> /\ visual = <<>>)

C13_Witness ==
    /\ act.name = "click" /\ apc = "done" /\ ret = "marker"
    /\ resp.success /\ resp.result = "positive"

\* C14: a click or type that issued a bridge command whose outcome is not a
\* success with a truthy indicator (failure, timeout, disconnect, or success
\* with the indicator absent or false) ends having called the parent's
\* method once with the arguments of the action, and returns its output.
C14_FallbackOnFailure ==
    (/\ act.name \in {"click", "type"}
     /\ apc = "done"
     /\ issued # <<>>
     /\ ~(resp.success /\ resp.result = "positive")) =>
        (visual = <<act.arg>> /\ ret = "visual")

\* C15: goto never calls the parent's method; entered with no peer attached
\* it issues no command and returns the webbrowser.open instruction; it
\* returns that instruction too when the navigate command did not succeed,
\* and the completed marker only when it did.
C15_GotoNeverVisual ==
    /\ []((act.name = "goto" /\ apc = "done") =>
             /\ visual = <<>>
             /\ ret \in {"marker", "os_open"}
             /\ (ret = "marker") = (issued = <<"navigate">> /\ resp.success))
    /\ [][((\E a \in Args : goto(a)) /\ ~(enable_browser /\ bridge # None /\ connected)) =>
              (issued' = <<>> /\ ret' = "os_open")]_vars

\* C16: get_page_content entered while the active window is no browser or the
\* peer is not connected returns None and issues no bridge command; it never
\* calls the parent's method.
C16_PageContentGate ==
    /\ [][(get_page_content /\ (~browser_active \/ ~connected)) =>
              (ret' = "None" /\ issued' = <<>> /\ apc' = "done")]_vars
    /\ [](act.name = "get_page_content" => visual = <<>>)

C16_Witness ==
    /\ act.name = "get_page_content" /\ apc = "done"
    /\ connected /\ enable_browser /\ bridge # None /\ ~browser_active
    /\ ~used /\ ret = "None" /\ issued = <<>>

\* C17: get_browser_screenshot entered while the active window is no browser
\* returns None and issues no bridge command, also when the peer is connected.
C17_ScreenshotGate ==
    [][(get_browser_screenshot /\ ~browser_active) =>
          (ret' = "None" /\ issued' = <<>>)]_vars

\* C18: no agent action raises: each ends with a returned value.
C18_NoException == ret # "raised"

\* C19: at most one connection is live and read by the receive loop, and a
\* frame of a connection that a later one has replaced completes no future.
C19_OnePeerServiced ==
    /\ [](Cardinality({p \in Peers : hpc[p] \in {"open", "pop"}}) <= 1)
    /\ [][\A p \in Peers :
             (hpc[p] = "pop" /\ hpc'[p] = "open" /\ fstate' # fstate) =>
                 \A q \in Peers : q > p => hpc[q] = "idle"]_vars

\* C20: after a connection has ended the server accepts the next peer, whose
\* handler makes the bridge connected again without touching the registry or
\* a future; and a call whose entry is pending in the registry after the
\* cancellation of an ended connection is completed by the response frame of
\* a live connection for its id, with that frame.
Ended(p) == hpc[p] \in {"closed", "aborted"}

C20_Rearmed ==
    /\ [](\A q \in Peers :
             (/\ \E p \in Peers : Ended(p)
              /\ LoopIdle
              /\ hpc[q] = "idle"
              /\ \A r \in Peers : r < q => hpc[r] # "idle") => ENABLED Connect(q))
    /\ [][\A q \in Peers :
             (hpc[q] = "idle" /\ hpc'[q] = "open") =>
                 /\ connected' /\ client' = q
                 /\ UNCHANGED <<pending_commands, fstate, fdata, resolved>>]_vars
    /\ [][\A q \in Peers, t \in Callers :
             (/\ \E p \in Peers : Ended(p)
              /\ hpc[q] = "pop" /\ hpc'[q] # "pop"
              /\ Has(pending_commands, msg)
              /\ pending_commands[SlotOf(pending_commands, msg)][2] = t
              /\ fstate[t] = "pending") =>
                 /\ hpc'[q] = "open"
                 /\ fstate'[t] = "result" /\ fdata'[t] = msg
                 /\ connected' = connected /\ client' = client]_vars

C20_Witness ==
    \E q \in Peers, t \in Callers :
        /\ \A p \in Peers : p < q => hpc[p] = "closed"
        /\ q > 1 /\ hpc[q] = "pop" /\ client = q /\ connected
        /\ msg = cmd_id[t]
        /\ Has(pending_commands, msg)
        /\ pending_commands[SlotOf(pending_commands, msg)][2] = t
        /\ pc[t] = "waiting" /\ fstate[t] = "pending"

\* C21: once stop() has stopped the loop the bridge has no connection
\* (connected is false and client is None), a call that waits for its result
\* can leave the wait, and a send_command entered from then on returns
\* "Extension not connected" in that step instead of raising.
Stopped == loop \in {"stopped", "closed"}

C21_StopDisconnects ==
    /\ [](Stopped =>
             /\ ~connected /\ client = None
             /\ \A t \in Callers :
                   pc[t] = "waiting" => ENABLED (Return(t) \/ ResultTimeout(t)))
    /\ [][\A t \in Callers :
             (Stopped /\ ~InCall(t)
                 /\ <<pc[t], outcome[t]>> # <<pc[t], outcome[t]>>') =>
                (pc'[t] = "returned" /\ outcome'[t] = "NotConnected")]_vars

\* C22: handling a handshake frame, also one whose id is the id of a pending
\* call, completes no future, removes no entry and leaves the registry, the
\* connection state and the handler of the connection as they are.
C22_HandshakeIgnored ==
    [][\A p \in Peers, i \in {0} \cup Ids :
          _handle_message(p, [kind |-> "handshake", id |-> i]) =>
             UNCHANGED <<pending_commands, fstate, fdata, resolved, rf,
                         client, connected, hpc, msg>>]_vars

\* A handshake with the id of a pending call arrives on the live connection;
\* it changes nothing, so this is also the state it leaves behind.
C22_Witness ==
    \E p \in Peers, t \in Callers :
        /\ LoopIdle /\ hpc[p] = "open" /\ client = p /\ connected
        /\ pc[t] = "waiting" /\ fstate[t] = "pending"
        /\ Has(pending_commands, cmd_id[t])
        /\ pending_commands[SlotOf(pending_commands, cmd_id[t])][2] = t
        /\ ENABLED _handle_message(p, [kind |-> "handshake", id |-> cmd_id[t]])

\* C23: client and connected change only in a step of a connection handler
\* on the running event loop (lines 100-101 when it starts, lines 111-112 when
\* it enters its finally block); no step of a send_command call, and so of a
\* convenience command or an agent action that calls it, changes them.
C23_SingleWriter ==
    /\ [][<<client, connected>>' # <<client, connected>> =>
             /\ loop = "running" /\ loop' = loop
             /\ \E p \in Peers : hpc'[p] # hpc[p] /\ hpc'[p] \in {"open", "iter"}
             /\ UNCHANGED <<pc, outcome, cmd_id, tmp, rf>>]_vars
    /\ [][\A t \in Callers :
             <<pc[t], outcome[t], cmd_id[t]>>' # <<pc[t], outcome[t], cmd_id[t]>> =>
                UNCHANGED <<client, connected>>]_vars

C23_Witness ==
    \E t \in Callers, p \in Peers :
        /\ pc[t] = "returned" /\ outcome[t] = "Response"
        /\ hpc[p] = "open" /\ client = p /\ connected

\* Something in the detection of this platform fails: a native module is
\* missing, a native call raises, a helper process fails or times out, the
\* process cannot be looked up.
Failure ==
    IF Lower(system) = "windows"
    THEN ~env.modules \/ env.native = "raises" \/ env.lookup = "fails"
    ELSE IF Lower(system) = "darwin"
    THEN ~env.modules \/ env.native = "raises"
    ELSE \/ env.helper # "ok" \/ env.helper2 # "ok"
         \/ ~env.modules \/ env.lookup = "fails"

\* C24 as stated: the detector never raises, and whenever something in the
\* detection fails get_active_window_info returns a mapping with is_browser
\* false and is_browser_active returns False.
C24_FalseOnEveryFailure ==
    /\ info.kind # "raised" /\ active # "raised"
    /\ (info.kind # "none" /\ Failure) => ~info.is_browser
    /\ (active # "none" /\ Failure) => active = "False"

\* What the Linux branch read of the window in front: "" when the helper
\* printed nothing, or the process could not be looked up.
ReadTitle == IF env.helper = "ok" THEN env.title ELSE ""
ReadProc ==
    IF env.helper2 = "ok" /\ env.modules /\ env.lookup = "ok" THEN env.proc ELSE ""

\* On Linux no helper raised and the title or the process name that was read
\* names a browser.
PartlyRead ==
    /\ Lower(system) \notin {"windows", "darwin"}
    /\ env.helper # "raises" /\ env.helper2 # "raises"
    /\ \E b \in BROWSER_PROCESSES.linux :
          Contains(Lower(ReadTitle), b) \/ Contains(Lower(ReadProc), b)

\* C24: the detector never raises; a failure of the detection gives a
\* mapping with is_browser false, and False from is_browser_active, except
\* on Linux when no helper raised and the title or the process name could
\* still be read: then the window is classified by what was read.
C24_SafeOnFailure ==
    /\ info.kind # "raised" /\ active # "raised"
    /\ (info.kind # "none" /\ Failure) => (info.is_browser = PartlyRead)
    /\ (active # "none") => (active = (IF info.is_browser THEN "True" ELSE "False"))

C24_Witness ==
    /\ system = "Windows" /\ env.modules /\ env.native = "raises"
    /\ env.proc = "Chrome.exe"
    /\ info.kind = "error" /\ ~info.is_browser /\ active = "False"

\* A handler of connection p is running its receive loop.
Attached(p) == hpc[p] \in {"open", "pop"}

\* C25: while the most recent connection is attached the bridge is connected
\* to it: connected is true and client is that peer, also after an earlier
\* connection, still attached when the recent one was accepted, has ended.
\* (The calls sent to the recent peer are those made while client is that
\* peer: with connected false no call can be made at all.)
C25_ConnectedTracksCurrent ==
    \A q \in Peers :
        (Attached(q) /\ \A r \in Peers : r > q => hpc[r] = "idle") =>
            (connected /\ client = q)

\* C26: every entry of the registry holds the future of a send_command call
\* that is in progress, so the registry is empty whenever no call is.
C26_NoLeak ==
    /\ \A k \in Live(pending_commands) :
          pending_commands[k][2] # None /\ InCall(pending_commands[k][2])
    /\ (\A t \in Callers : ~InCall(t)) => Live(pending_commands) = {}

\* The commands of type() before the type command: find_element when a
\* description was given.
Pre == IF act.desc THEN <<"find_element">> ELSE <<>>

\* C27: type() on the DOM path issues find_element (only with a description),
\* then type, then the Enter command (only when enter is true and type was
\* reported typed), and nothing after a step that failed; when find_element
\* or type comes back as a failure or without its indicator, the parent's
\* method is called once with the arguments of the action and its output
\* returned; and a type() with enter true that returns the completed marker
\* has issued the Enter command and got success for it.  (A response that
\* makes the action raise is the case of C18.)
C27_TypeSequence ==
    act.name = "type" =>
        /\ issued \in {<<>>, Pre, Pre \o <<"type">>, Pre \o <<"type", "type">>}
        /\ Len(issued) = Len(Pre) + 2 => act.enter
        /\ apc = "enter" =>
              (act.enter /\ issued = Pre \o <<"type">> /\ Indicator(resp) = "yes")
        /\ (apc = "done" /\ issued # <<>> /\ Len(issued) <= Len(Pre) + 1
                /\ ~resp.raised /\ Indicator(resp) = "no") =>
              (ret = "visual" /\ visual = <<act.arg>>)
        /\ (apc = "done" /\ ret = "marker" /\ act.enter) =>
              (issued = Pre \o <<"type", "type">> /\ ~resp.raised /\ resp.success)

====
